---- MODULE Spec2Model ----
(***************************************************************************)
(* gotlb: a TCP load balancer whose backend membership is driven by        *)
(* Marathon events.                                                        *)
(*                                                                         *)
(*   FrontendSpec  - one Frontend (frontend.go): its lock, its backend     *)
(*                   list, its round-robin strategy, and the tasks that    *)
(*                   call AddBackend / RemoveBackend / LenOfBackends /     *)
(*                   Lookup concurrently.                                  *)
(*   ProviderSpec  - the MarathonProvider (providers/marathon.go): the     *)
(*                   initial scan, the event loop and the four command     *)
(*                   channels.                                             *)
(*                                                                         *)
(* The round-robin strategy behind LoadBalancingStrategy is not part of    *)
(* the two source files; RRNext*, RRAddBackend and RRRemoveBackend follow  *)
(* its description in the design document (section 4.1).                   *)
(***************************************************************************)
EXTENDS Integers, Sequences, FiniteSets, TLC

----------------------------------------------------------------------------
(* Bounds of the model *)

MaxBackends == 3    \* longest backend list explored
MaxInit == 1        \* longest list handed to NewFrontend
MaxCursor == 5      \* Lookup is explored while the cursor is below this
MaxApps == 2        \* applications returned by the initial listing
MaxTasks == 1       \* tasks per listed application
MaxRelays == 1      \* Relays running at the same time

Nodes == {"A", "B", "C"}
Tasks == {"t1", "t2"}          \* tasks calling the Frontend's mutators
Free == "free"                 \* the Frontend lock is not held
NoBackend == ""                \* the no-backend sentinel of Lookup

VARIABLES
    \* ---- Frontend (frontend.go) ----
    initial,      \* the backends argument of NewFrontend
    backends,     \* Frontend.backends
    lock,         \* Frontend.lock: Free or the task holding it
    sBackends,    \* the strategy's backend list
    sCursor,      \* the strategy's cursor
    pc,           \* position of each mutator task
    arg,          \* the backend argument of the call a task is in
    found,        \* RemoveBackend's local `found`
    lpc,          \* position of the accept-loop task inside Lookup
    lN,           \* the length Lookup's Next read before indexing
    lenRet,       \* what LenOfBackends returned in the step just taken (-1: the
                  \* step was not a LenOfBackends call)
    hist,         \* what the Lookups since the last strategy mutation returned
                  \* (the last 4 of them)
    dirty,        \* a strategy mutation happened inside the running Lookup
    net,          \* completed AddBackend calls minus completed matched removes
    \* ---- MarathonProvider (providers/marathon.go) ----
    listing,      \* what client.Applications returns
    apps,         \* MarathonProvider.apps
    ppc,          \* position of the provider goroutine
    ai,           \* index of the application the scan is at
    ti,           \* index of the task the scan is at
    pending,      \* the command the provider is blocked sending
    sent,         \* the commands the consumer has received, in order: those
                  \* of the initial scan, then those of the event cur
    cur,          \* the event being handled (or last handled)
    stopFired,    \* a value is offered on stopMe
    \* ---- Frontend.Start and Frontend.Stop (frontend.go) ----
    spc,          \* position of the goroutine running Start
    lsock,        \* the listening socket: "none", "open", "closed", or
                  \* "failed" when net.Listen returned an error
    listener,     \* Frontend.listener: "nil" or "set"
    stopDone,     \* Stop has returned
    relays        \* Relays in the middle of a transfer

fvars == <<initial, backends, lock, sBackends, sCursor, pc, arg, found, lpc,
           lN, lenRet, hist, dirty, net>>
pvars == <<listing, apps, ppc, ai, ti, pending, sent, cur, stopFired>>
lvars == <<spc, lsock, listener, stopDone, relays>>
vars == <<fvars, pvars, lvars>>

----------------------------------------------------------------------------
(* Sequences *)

Range(s) == {s[i] : i \in 1..Len(s)}

SeqsUpTo(S, n) == UNION {[1..k -> S] : k \in 0..n}

\* s without the element at 0-based index idx:
\* append(s[:idx], s[idx+1:]...)
RemoveAt(s, idx) == SubSeq(s, 1, idx) \o SubSeq(s, idx + 2, Len(s))

LastN(s, n) == IF Len(s) <= n THEN s ELSE SubSeq(s, Len(s) - n + 1, Len(s))

----------------------------------------------------------------------------
(* Frontend.findIdxOfBackend: 0-based index of the first match, or -1 *)

findIdxOfBackend(list, backend) ==
    IF \E i \in 1..Len(list) : list[i] = backend
    THEN [idx |-> (CHOOSE i \in 1..Len(list) :
                      /\ list[i] = backend
                      /\ \A j \in 1..(i - 1) : list[j] # backend) - 1,
          found |-> TRUE]
    ELSE [idx |-> -1, found |-> FALSE]

----------------------------------------------------------------------------
(* The round-robin strategy (design document, section 4.1) *)

RRAddBackend(list, cursor, backend) ==
    [backends |-> Append(list, backend), cursor |-> cursor]

RRRemoveBackend(list, cursor, backend) ==
    LET r == findIdxOfBackend(list, backend) IN
    IF r.found
    THEN [backends |-> RemoveAt(list, r.idx),
          cursor |-> IF r.idx < cursor THEN cursor - 1 ELSE cursor]
    ELSE [backends |-> list, cursor |-> cursor]

\* The backend Next returns for this list and cursor when nothing interferes.
RRPeek(list, cursor) ==
    IF Len(list) = 0 THEN NoBackend ELSE list[(cursor % Len(list)) + 1]

\* The process runs: no panic inside Lookup, no log.Fatal in Start.
Alive == lpc # "crashed" /\ spc # "fatal"

\* The Frontend on which Start and Stop were not called.
ListenerIdle ==
    /\ spc = "new"
    /\ lsock = "none"
    /\ listener = "nil"
    /\ stopDone = FALSE
    /\ relays = 0

\* History of Lookup results: amended by a Lookup that returns r.
Recorded(r) == IF dirty THEN <<>> ELSE LastN(Append(hist, r), 4)

----------------------------------------------------------------------------
(* The provider before Provide() is called: its state in FrontendSpec *)

NoCommand == [kind |-> "none"]
NoEvent == [kind |-> "none"]

ProviderIdle ==
    /\ listing = [ok |-> FALSE, apps |-> <<>>]
    /\ apps = <<>>
    /\ ppc = "start"
    /\ ai = 0
    /\ ti = 0
    /\ pending = NoCommand
    /\ sent = <<>>
    /\ cur = NoEvent
    /\ stopFired = FALSE

----------------------------------------------------------------------------
(* Frontend *)

\* NewFrontend(appId, port, backends): the list is stored as given, the
\* strategy is a fresh RoundRobinStrategy().
NewFrontend(bs) ==
    /\ initial = bs
    /\ backends = bs
    /\ lock = Free
    /\ sBackends = <<>>
    /\ sCursor = 0
    /\ pc = [t \in Tasks |-> "idle"]
    /\ arg = [t \in Tasks |-> NoBackend]
    /\ found = [t \in Tasks |-> FALSE]
    /\ lpc = "idle"
    /\ lN = 0
    /\ lenRet = -1
    /\ hist = <<>>
    /\ dirty = FALSE
    /\ net = 0

\* The lists NewFrontend is given: the nodes are interchangeable, so one list
\* of each length.
InitialLists == {SubSeq(<<"A", "B", "C">>, 1, k) : k \in 0..MaxInit}

FrontendInit ==
    /\ \E bs \in InitialLists : NewFrontend(bs)
    /\ ListenerIdle
    /\ ProviderIdle

\* strategy.Next(), first half: read the length; an empty list yields the
\* sentinel at once.
RRNextBegin ==
    /\ lpc = "idle"
    /\ sCursor < MaxCursor
    /\ IF Len(sBackends) = 0
       THEN /\ hist' = Recorded(NoBackend)
            /\ UNCHANGED <<lpc, lN>>
       ELSE /\ lpc' = "pick"
            /\ lN' = Len(sBackends)
            /\ UNCHANGED hist
    /\ dirty' = FALSE
    /\ UNCHANGED sCursor

\* strategy.Next(), second half: index the list at cursor mod length and
\* advance the cursor. An index outside the list the strategy now holds is an
\* index-out-of-range panic.
RRNextPick(advance) ==
    /\ lpc = "pick"
    /\ LET idx == sCursor % lN IN
       IF idx >= Len(sBackends)
       THEN /\ lpc' = "crashed"
            /\ UNCHANGED <<sCursor, hist, lN>>
       ELSE /\ lpc' = "idle"
            /\ sCursor' = sCursor + advance
            /\ hist' = Recorded(sBackends[idx + 1])
            /\ lN' = 0
    /\ dirty' = FALSE

LookupFrame ==
    /\ lenRet' = -1
    /\ UNCHANGED <<initial, backends, lock, sBackends, pc, arg, found, net,
                   pvars>>

\* Lookup as it would be if the pick were returned without moving the cursor.
LookupStuck ==
    /\ Alive
    /\ RRNextBegin \/ RRNextPick(0)
    /\ LookupFrame
    /\ UNCHANGED lvars

\* Frontend.Lookup: return f.strategy.Next(), without taking f.lock.
Lookup ==
    /\ Alive
    /\ RRNextBegin \/ RRNextPick(1)
    /\ LookupFrame
    /\ UNCHANGED lvars

\* A strategy mutation ends the run of undisturbed Lookups.
HistReset ==
    /\ hist' = <<>>
    /\ dirty' = (lpc = "pick")

\* AddBackend: f.lock.Lock()
AddLock(t, b) ==
    /\ Alive
    /\ pc[t] = "idle"
    /\ lock = Free
    /\ Len(backends) < MaxBackends
    /\ lock' = t
    /\ pc' = [pc EXCEPT ![t] = "add_list"]
    /\ arg' = [arg EXCEPT ![t] = b]
    /\ lenRet' = -1
    /\ UNCHANGED <<initial, backends, sBackends, sCursor, found, lpc, lN,
                   hist, dirty, net, pvars, lvars>>

\* AddBackend: f.backends = append(f.backends, backend)
AddList(t) ==
    /\ Alive
    /\ pc[t] = "add_list"
    /\ backends' = Append(backends, arg[t])
    /\ pc' = [pc EXCEPT ![t] = "add_strategy"]
    /\ lenRet' = -1
    /\ UNCHANGED <<initial, lock, sBackends, sCursor, arg, found, lpc, lN,
                   hist, dirty, net, pvars, lvars>>

\* AddBackend: f.strategy.AddBackend(backend)
AddStrategy(t) ==
    /\ Alive
    /\ pc[t] = "add_strategy"
    /\ LET st == RRAddBackend(sBackends, sCursor, arg[t]) IN
       /\ sBackends' = st.backends
       /\ sCursor' = st.cursor
    /\ HistReset
    /\ pc' = [pc EXCEPT ![t] = "add_unlock"]
    /\ lenRet' = -1
    /\ UNCHANGED <<initial, backends, lock, arg, found, lpc, lN, net,
                   pvars, lvars>>

\* AddBackend: the deferred f.lock.Unlock(); the call returns.
AddUnlock(t) ==
    /\ Alive
    /\ pc[t] = "add_unlock"
    /\ lock' = Free
    /\ pc' = [pc EXCEPT ![t] = "idle"]
    /\ arg' = [arg EXCEPT ![t] = NoBackend]
    /\ net' = net + 1
    /\ lenRet' = -1
    /\ UNCHANGED <<initial, backends, sBackends, sCursor, found, lpc, lN,
                   hist, dirty, pvars, lvars>>

\* RemoveBackend: f.lock.Lock()
RemoveLock(t, b) ==
    /\ Alive
    /\ pc[t] = "idle"
    /\ lock = Free
    /\ lock' = t
    /\ pc' = [pc EXCEPT ![t] = "rm_list"]
    /\ arg' = [arg EXCEPT ![t] = b]
    /\ lenRet' = -1
    /\ UNCHANGED <<initial, backends, sBackends, sCursor, found, lpc, lN,
                   hist, dirty, net, pvars, lvars>>

\* RemoveBackend as it would be if the slice were cut whatever `found` says:
\* a node that is not there takes the last one with it.
RemoveListUnchecked(t) ==
    /\ Alive
    /\ pc[t] = "rm_list"
    /\ LET r == findIdxOfBackend(backends, arg[t]) IN
       /\ found' = [found EXCEPT ![t] = r.found]
       /\ backends' = IF r.found THEN RemoveAt(backends, r.idx)
                      ELSE SubSeq(backends, 1, Len(backends) - 1)
    /\ pc' = [pc EXCEPT ![t] = "rm_strategy"]
    /\ lenRet' = -1
    /\ UNCHANGED <<initial, lock, sBackends, sCursor, arg, lpc, lN,
                   hist, dirty, net, pvars, lvars>>

\* RemoveBackend: findIdxOfBackend, then the removal from f.backends or the
\* warning.
RemoveList(t) ==
    /\ Alive
    /\ pc[t] = "rm_list"
    /\ LET r == findIdxOfBackend(backends, arg[t]) IN
       /\ found' = [found EXCEPT ![t] = r.found]
       /\ backends' = IF r.found THEN RemoveAt(backends, r.idx) ELSE backends
    /\ pc' = [pc EXCEPT ![t] = "rm_strategy"]
    /\ lenRet' = -1
    /\ UNCHANGED <<initial, lock, sBackends, sCursor, arg, lpc, lN,
                   hist, dirty, net, pvars, lvars>>

\* RemoveBackend: f.strategy.RemoveBackend(backend), found or not.
RemoveStrategy(t) ==
    /\ Alive
    /\ pc[t] = "rm_strategy"
    /\ LET st == RRRemoveBackend(sBackends, sCursor, arg[t]) IN
       /\ sBackends' = st.backends
       /\ sCursor' = st.cursor
    /\ HistReset
    /\ pc' = [pc EXCEPT ![t] = "rm_unlock"]
    /\ lenRet' = -1
    /\ UNCHANGED <<initial, backends, lock, arg, found, lpc, lN, net,
                   pvars, lvars>>

\* RemoveBackend: the deferred f.lock.Unlock(); the call returns.
RemoveUnlock(t) ==
    /\ Alive
    /\ pc[t] = "rm_unlock"
    /\ lock' = Free
    /\ pc' = [pc EXCEPT ![t] = "idle"]
    /\ arg' = [arg EXCEPT ![t] = NoBackend]
    /\ found' = [found EXCEPT ![t] = FALSE]
    /\ net' = IF found[t] THEN net - 1 ELSE net
    /\ lenRet' = -1
    /\ UNCHANGED <<initial, backends, sBackends, sCursor, lpc, lN,
                   hist, dirty, pvars, lvars>>

\* LenOfBackends as it would be without the lock.
LenOfBackendsUnlocked ==
    /\ Alive
    /\ lenRet' = Len(backends)
    /\ UNCHANGED <<initial, backends, lock, sBackends, sCursor, pc, arg,
                   found, lpc, lN, hist, dirty, net, pvars, lvars>>

\* Frontend.LenOfBackends: Lock, len(f.backends), Unlock. The lock is held for
\* the one read, so the call is one step taken when the lock is free.
LenOfBackends ==
    /\ Alive
    /\ lock = Free
    /\ lenRet' = Len(backends)
    /\ UNCHANGED <<initial, backends, lock, sBackends, sCursor, pc, arg,
                   found, lpc, lN, hist, dirty, net, pvars, lvars>>

FrontendNext ==
    \/ Lookup
    \/ LenOfBackends
    \/ \E t \in Tasks, b \in Nodes : AddLock(t, b)
    \/ \E t \in Tasks : AddList(t)
    \/ \E t \in Tasks : AddStrategy(t)
    \/ \E t \in Tasks : AddUnlock(t)
    \/ \E t \in Tasks, b \in Nodes : RemoveLock(t, b)
    \/ \E t \in Tasks : RemoveList(t)
    \/ \E t \in Tasks : RemoveStrategy(t)
    \/ \E t \in Tasks : RemoveUnlock(t)

FrontendSpec == FrontendInit /\ [][FrontendNext]_vars

----------------------------------------------------------------------------
(* Frontend.Start and Frontend.Stop *)

\* What the accept loop leaves alone outside Lookup.
ListenerFrame ==
    UNCHANGED <<fvars, pvars>>

\* Start: l, err := net.Listen("tcp", ":"+f.port)
StartListen ==
    /\ Alive
    /\ spc = "new"
    /\ \E ok \in BOOLEAN : lsock' = IF ok THEN "open" ELSE "failed"
    /\ spc' = "listened"
    /\ UNCHANGED <<listener, stopDone, relays>>
    /\ ListenerFrame

\* Start: f.listener = l (a failed Listen returned a nil listener)
StartStore ==
    /\ Alive
    /\ spc = "listened"
    /\ listener' = IF lsock = "failed" THEN "nil" ELSE "set"
    /\ spc' = "check"
    /\ UNCHANGED <<lsock, stopDone, relays>>
    /\ ListenerFrame

\* Start: if err != nil { log.Fatal(err) }, else enter the accept loop.
\* log.Fatal ends the process and every Relay with it.
StartCheck ==
    /\ Alive
    /\ spc = "check"
    /\ IF lsock = "failed"
       THEN spc' = "fatal" /\ relays' = 0
       ELSE spc' = "accept" /\ UNCHANGED relays
    /\ UNCHANGED <<lsock, listener, stopDone>>
    /\ ListenerFrame

\* Accept loop: l.Accept() returns a connection.
AcceptConn ==
    /\ Alive
    /\ spc = "accept"
    /\ lsock = "open"
    /\ relays < MaxRelays
    /\ spc' = "dispatch"
    /\ UNCHANGED <<lsock, listener, stopDone, relays>>
    /\ ListenerFrame

\* Accept loop: l.Accept() returns an error, which it always does on a
\* closed listener; log.Fatal ends the process and every Relay with it.
AcceptFails ==
    /\ Alive
    /\ spc = "accept"
    /\ lsock \in {"open", "closed"}
    /\ spc' = "fatal"
    /\ relays' = 0
    /\ UNCHANGED <<lsock, listener, stopDone>>
    /\ ListenerFrame

\* Accept loop: go NewRequest(conn, f.Lookup(), f.appId).  The Lookup is the
\* unlocked two-step strategy.Next(), whose panic ends the process; a Relay
\* given the empty backend closes the client connection at once, any other
\* Relay starts its transfer.
Dispatch ==
    /\ Alive
    /\ spc = "dispatch"
    /\ RRNextBegin \/ RRNextPick(1)
    /\ LookupFrame
    /\ IF lpc' = "pick"
       THEN UNCHANGED <<spc, relays>>
       ELSE IF lpc' = "crashed"
       THEN spc' = spc /\ relays' = 0
       ELSE /\ spc' = "accept"
            /\ relays' = IF hist' # <<>> /\ hist'[Len(hist')] = NoBackend
                         THEN relays
                         ELSE relays + 1
    /\ UNCHANGED <<lsock, listener, stopDone>>

\* A Relay ends because one of its two sockets closed.
RelayEnds ==
    /\ Alive
    /\ relays > 0
    /\ relays' = relays - 1
    /\ UNCHANGED <<spc, lsock, listener, stopDone>>
    /\ ListenerFrame

\* Stop: if f.listener != nil { f.listener.Close() }.  f.listener is read
\* without synchronisation with Start's store.
Stop ==
    /\ Alive
    /\ ~stopDone
    /\ lsock' = IF listener = "set" /\ lsock = "open" THEN "closed" ELSE lsock
    /\ stopDone' = TRUE
    /\ UNCHANGED <<spc, listener, relays>>
    /\ ListenerFrame

ListenerNext ==
    \/ StartListen
    \/ StartStore
    \/ StartCheck
    \/ AcceptConn
    \/ AcceptFails
    \/ Dispatch
    \/ RelayEnds
    \/ Stop
    \/ \E t \in Tasks, b \in Nodes : AddLock(t, b)
    \/ \E t \in Tasks : AddList(t)
    \/ \E t \in Tasks : AddStrategy(t)
    \/ \E t \in Tasks : AddUnlock(t)

ListenerSpec == FrontendInit /\ [][ListenerNext]_vars

----------------------------------------------------------------------------
(* The Frontend before NewFrontend is called: its state in ProviderSpec *)

FrontendIdle == NewFrontend(<<>>)

----------------------------------------------------------------------------
(* MarathonProvider: what Marathon reports *)

AppIds == {"app1", "app2"}

\* The two labels the provider reads, as the strings Marathon carries
\* ("none": the label is absent).
LabelSets == [enabled : {"true", "none"}, portIndex : {"none", "0", "1"}]

\* The labels API-request events carry.
EventLabelSets == {l \in LabelSets : l.portIndex = "none"}

\* A task (or a status update) reports its IP addresses and its ports.
TaskSet ==
    { [ips |-> <<"10.0.0.1", "10.0.0.2">>, ports |-> <<9000, 9001>>],
      [ips |-> <<"10.0.0.1">>, ports |-> <<9000>>] }

AppSet == [id : AppIds, labels : LabelSets, tasks : SeqsUpTo(TaskSet, MaxTasks)]

\* client.Applications: an error, or applications with distinct ids.
Listings ==
    {[ok |-> FALSE, apps |-> <<>>]} \cup
    {[ok |-> TRUE, apps |-> as] :
        as \in {x \in SeqsUpTo(AppSet, MaxApps) :
                   \A i, j \in 1..Len(x) : x[i].id = x[j].id => i = j}}

Statuses == {"TASK_FAILED", "TASK_RUNNING", "TASK_KILLED"}

\* What the events channel delivers: status updates, API requests, and the
\* two other subscribed kinds (failed health check, app terminated).
Events ==
    [kind : {"status"}, appId : AppIds, status : Statuses, task : TaskSet]
    \cup [kind : {"api"}, appId : AppIds, labels : EventLabelSets,
          fetchOk : BOOLEAN]
    \cup {[kind |-> "other"]}

\* maps.GetBoolean(labels, TLB_ENABLED, false)
GetBoolean(labels) == labels.enabled = "true"

\* maps.GetInt(labels, TLB_PORTINDEX, 0)
GetInt(labels) ==
    CASE labels.portIndex = "0" -> 0
      [] labels.portIndex = "1" -> 1
      [] OTHER -> 0

\* containsApp as it would be if every application counted as known.
containsAppAny(known, appId) == appId \in AppIds

\* MarathonProvider.containsApp
containsApp(known, appId) == appId \in DOMAIN known

\* MarathonProvider.appApp: m.apps[appId] = labels
appApp(known, appId, labels) ==
    [a \in DOMAIN known \cup {appId} |->
        IF a = appId THEN labels ELSE known[a]]

AddBackendCmd(appId, node) ==
    [kind |-> "AddBackend", appId |-> appId, node |-> node]
RemoveBackendCmd(appId, node) ==
    [kind |-> "RemoveBackend", appId |-> appId, node |-> node]
AppUpdatedCmd(appId, labels) ==
    [kind |-> "AppUpdated", appId |-> appId, labels |-> labels]
AppDroppedCmd(appId, labels) ==
    [kind |-> "AppDropped", appId |-> appId, labels |-> labels]

\* createBackendInfo as it would be if it always took the first endpoint.
createBackendInfoFirst(known, appId, ipAddresses, ports) ==
    IF 0 >= Len(ipAddresses) \/ 0 >= Len(ports)
    THEN [ok |-> FALSE]
    ELSE [ok |-> TRUE, appId |-> appId,
          node |-> <<ipAddresses[1], ports[1]>>]

\* MarathonProvider.createBackendInfo: the node is
\* ipAddresses[portIndex] ":" ports[portIndex], kept here as the pair;
\* an index outside either array is an index-out-of-range panic (ok = FALSE).
createBackendInfo(known, appId, ipAddresses, ports) ==
    LET portIndex == IF appId \in DOMAIN known THEN GetInt(known[appId])
                                               ELSE 0 IN
    IF portIndex >= Len(ipAddresses) \/ portIndex >= Len(ports)
    THEN [ok |-> FALSE]
    ELSE [ok |-> TRUE, appId |-> appId,
          node |-> <<ipAddresses[portIndex + 1], ports[portIndex + 1]>>]

----------------------------------------------------------------------------
(* MarathonProvider: the goroutine started by Provide() *)

ProviderInit ==
    /\ listing \in Listings
    /\ apps = <<>>
    /\ ppc = "start"
    /\ ai = 0
    /\ ti = 0
    /\ pending = NoCommand
    /\ sent = <<>>
    /\ cur = NoEvent
    /\ stopFired = FALSE
    /\ FrontendIdle
    /\ ListenerIdle

\* start: marathon.NewClient fails, log.Fatalf ends the process.
ClientFails ==
    /\ ppc = "start"
    /\ ppc' = "fatal"
    /\ UNCHANGED <<listing, apps, ai, ti, pending, sent, cur,
                   stopFired, fvars, lvars>>

\* start: the client is built; scanAllApps calls client.Applications. An
\* error is logged and the scan is over, else the loop over the applications
\* begins.
ScanBegin ==
    /\ ppc = "start"
    /\ IF listing.ok
       THEN ppc' = "scan_app" /\ ai' = 1
       ELSE ppc' = "subscribe" /\ ai' = ai
    /\ UNCHANGED <<listing, apps, ti, pending, sent, cur, stopFired, fvars,
                   lvars>>

\* scanAllApps: the next application of the listing; one with the enabled
\* label is announced on appUpdate (the send blocks until it is received).
ScanApp ==
    /\ ppc = "scan_app"
    /\ IF ai > Len(listing.apps)
       THEN /\ ppc' = "subscribe"
            /\ UNCHANGED <<ai, pending>>
       ELSE LET app == listing.apps[ai] IN
            IF GetBoolean(app.labels)
            THEN /\ pending' = AppUpdatedCmd(app.id, app.labels)
                 /\ ppc' = "scan_send_update"
                 /\ UNCHANGED ai
            ELSE /\ ai' = ai + 1
                 /\ UNCHANGED <<ppc, pending>>
    /\ UNCHANGED <<listing, apps, ti, sent, cur, stopFired,
                   fvars, lvars>>

\* scanAllApps: the consumer receives the AppUpdated; the application is
\* recorded with appApp and the loop over its tasks begins.
ScanUpdateSent ==
    /\ ppc = "scan_send_update"
    /\ sent' = Append(sent, pending)
    /\ pending' = NoCommand
    /\ apps' = appApp(apps, listing.apps[ai].id, listing.apps[ai].labels)
    /\ ti' = 1
    /\ ppc' = "scan_task"
    /\ UNCHANGED <<listing, ai, cur, stopFired, fvars, lvars>>

\* scanAllApps: the next task of the application; its backend is built and
\* sent on addBackend.
ScanTask ==
    /\ ppc = "scan_task"
    /\ LET app == listing.apps[ai] IN
       IF ti > Len(app.tasks)
       THEN /\ ai' = ai + 1
            /\ ppc' = "scan_app"
            /\ UNCHANGED pending
       ELSE LET info == createBackendInfo(apps, app.id, app.tasks[ti].ips,
                                          app.tasks[ti].ports) IN
            IF info.ok
            THEN /\ pending' = AddBackendCmd(info.appId, info.node)
                 /\ ppc' = "scan_send_add"
                 /\ UNCHANGED ai
            ELSE /\ ppc' = "crashed"
                 /\ UNCHANGED <<ai, pending>>
    /\ UNCHANGED <<listing, apps, ti, sent, cur, stopFired,
                   fvars, lvars>>

\* scanAllApps: the consumer receives the AddBackend.
ScanAddSent ==
    /\ ppc = "scan_send_add"
    /\ sent' = Append(sent, pending)
    /\ pending' = NoCommand
    /\ ti' = ti + 1
    /\ ppc' = "scan_task"
    /\ UNCHANGED <<listing, apps, ai, cur, stopFired, fvars, lvars>>

\* start: client.AddEventsListener; an error ends the process (log.Fatalf).
Subscribe ==
    /\ ppc = "subscribe"
    /\ ppc' \in {"select", "fatal"}
    /\ UNCHANGED <<listing, apps, ai, ti, pending, sent, cur,
                   stopFired, fvars, lvars>>

\* The select as it would be if the loop went on after the stop case.
TakeEventAfterStop(e) ==
    /\ ppc \in {"select", "stopped"}
    /\ cur' = e
    /\ sent' = <<>>

\* The select takes event e from the events channel.
TakeEvent(e) ==
    /\ ppc = "select"
    /\ cur' = e
    /\ sent' = <<>>

\* A send as it would be if it returned before the command is received.
EmitWithoutWaiting(cmd) ==
    /\ pending' = cmd
    /\ ppc' = "select"

\* An event handler that sends cmd: the send blocks until it is received.
Emit(cmd) ==
    /\ pending' = cmd
    /\ ppc' = "send_event"

\* An event handler that sends nothing: back to the select.
EmitNothing == UNCHANGED <<pending, ppc>>

\* case marathon.EventIDStatusUpdate
OnStatusUpdate(e) ==
    /\ e.kind = "status"
    /\ TakeEvent(e)
    /\ LET knownApp == containsApp(apps, e.appId)
           info == createBackendInfo(apps, e.appId, e.task.ips, e.task.ports)
       IN
       IF knownApp /\ e.status = "TASK_FAILED"
       THEN IF info.ok
            THEN Emit(RemoveBackendCmd(info.appId, info.node))
            ELSE ppc' = "crashed" /\ UNCHANGED pending
       ELSE IF knownApp /\ e.status = "TASK_RUNNING"
       THEN IF info.ok
            THEN Emit(AddBackendCmd(info.appId, info.node))
            ELSE ppc' = "crashed" /\ UNCHANGED pending
       ELSE EmitNothing
    /\ UNCHANGED <<listing, apps, ai, ti, stopFired, fvars, lvars>>

\* case marathon.EventIDAPIRequest: the application is fetched again; a
\* failed fetch of a known application sends AppDropped, a successful fetch
\* sends AppUpdated. m.apps is not written.
OnAPIRequest(e) ==
    /\ e.kind = "api"
    /\ TakeEvent(e)
    /\ IF ~e.fetchOk
       THEN IF containsApp(apps, e.appId)
            THEN Emit(AppDroppedCmd(e.appId, e.labels))
            ELSE EmitNothing
       ELSE Emit(AppUpdatedCmd(e.appId, e.labels))
    /\ UNCHANGED <<listing, apps, ai, ti, stopFired, fvars, lvars>>

\* Failed-health-check and app-terminated events match no case of the switch.
OnOtherEvent(e) ==
    /\ e.kind = "other"
    /\ TakeEvent(e)
    /\ EmitNothing
    /\ UNCHANGED <<listing, apps, ai, ti, stopFired, fvars, lvars>>

\* The consumer receives the command an event handler is sending.
EventSent ==
    /\ ppc = "send_event"
    /\ sent' = Append(sent, pending)
    /\ pending' = NoCommand
    /\ ppc' = "select"
    /\ UNCHANGED <<listing, apps, ai, ti, cur, stopFired,
                   fvars, lvars>>

\* The owner of the stop channel offers a value on it.
FireStop ==
    /\ ~stopFired
    /\ ppc \notin {"fatal", "crashed", "stopped"}
    /\ stopFired' = TRUE
    /\ UNCHANGED <<listing, apps, ppc, ai, ti, pending, sent, cur, fvars,
                   lvars>>

\* case <-m.stopMe: running = false, the events listener is removed.
OnStop ==
    /\ ppc = "select"
    /\ stopFired
    /\ ppc' = "stopped"
    /\ UNCHANGED <<listing, apps, ai, ti, pending, sent, cur,
                   stopFired, fvars, lvars>>

ProviderNext ==
    \/ ClientFails
    \/ ScanBegin
    \/ ScanApp
    \/ ScanUpdateSent
    \/ ScanTask
    \/ ScanAddSent
    \/ Subscribe
    \/ \E e \in Events : OnStatusUpdate(e)
    \/ \E e \in Events : OnAPIRequest(e)
    \/ \E e \in Events : OnOtherEvent(e)
    \/ EventSent
    \/ FireStop
    \/ OnStop

ProviderSpec == ProviderInit /\ [][ProviderNext]_vars

\* The steps start() takes on its own: they wait for neither an event nor the
\* consumer of a command channel.
ProviderStep ==
    \/ ClientFails
    \/ ScanBegin
    \/ ScanApp
    \/ ScanTask
    \/ Subscribe

\* The provider with the scheduling of its goroutine: a step it can take on
\* its own is taken, and a select whose stop case is ready again and again
\* picks it at some point.  Nothing obliges the orchestrator to send an event
\* or the consumer to receive a command.
ProviderFairSpec ==
    /\ ProviderSpec
    /\ WF_vars(ProviderStep)
    /\ SF_vars(OnStop)

----------------------------------------------------------------------------
(* Properties of the Frontend, checked under FrontendSpec *)

\* C1: Lookup and the mutators are mutually exclusive: no step of Lookup is
\* taken while a mutator holds the Frontend lock.
C1_LookupExcludesMutators == [][Lookup => lock = Free]_vars

\* C2: whenever the lock is free, the Frontend's backend list and the
\* strategy's backend set contain exactly the same nodes, for every list
\* given to NewFrontend.
C2_ListMatchesStrategy == (lock = Free) => (Range(backends) = Range(sBackends))

\* C3 (as claimed): LenOfBackends returns the completed adds minus the
\* completed matched removes, and is never negative.
C3_LenIsAddsMinusRemoves ==
    (lenRet # -1) => (lenRet = net /\ lenRet >= 0)

\* C3 (amended): LenOfBackends returns the length of the list given to
\* NewFrontend plus the completed adds minus the completed matched removes;
\* it is never negative and never counts a mutation that has not returned.
C3_LenCountsInitial ==
    (lenRet # -1) => (lenRet = Len(initial) + net /\ lenRet >= 0)

\* LenOfBackends has returned 2 on a Frontend built with one backend, after
\* two adds and a matched remove have returned.
C3_Witness ==
    /\ lenRet = 2
    /\ Len(initial) = 1
    /\ net = 1
    /\ Range(backends) # Range(sBackends)

\* C4: Lookup never crashes, and every Lookup that ran on an empty backend
\* set returned the sentinel, also when a concurrent RemoveBackend empties
\* the set.
C4_LookupOnEmpty ==
    /\ lpc # "crashed"
    /\ (sBackends = <<>>) => (\A i \in 1..Len(hist) : hist[i] = NoBackend)

C6_RemoveBeforeCursorKeepsNext ==
    [][\A t \in Tasks :
          (/\ RemoveStrategy(t)
           /\ findIdxOfBackend(sBackends, arg[t]).found
           /\ findIdxOfBackend(sBackends, arg[t]).idx
                 < sCursor % Len(sBackends))
          => RRPeek(sBackends', sCursor') = RRPeek(sBackends, sCursor)]_vars

\* C7: RemoveBackend of a node that is not in the backend list leaves the
\* list, the strategy's list and its cursor as they were, and returns with
\* the lock released.
C7_RemoveAbsentIsNoOp ==
    [][\A t \in Tasks :
          /\ (RemoveList(t) /\ ~found'[t]) => backends' = backends
          /\ (RemoveStrategy(t) /\ ~found[t]) =>
                (sBackends' = sBackends /\ sCursor' = sCursor)
          /\ (RemoveUnlock(t) /\ ~found[t]) =>
                (lock' = Free /\ pc'[t] = "idle" /\ net' = net)]_vars

\* A RemoveBackend of an absent node has passed the strategy and is about to
\* return, on a Frontend that has backends and a cursor that has moved.
C7_Witness ==
    \E t \in Tasks :
        /\ pc[t] = "rm_unlock"
        /\ ~found[t]
        /\ Len(sBackends) > 0
        /\ sCursor > 0

----------------------------------------------------------------------------
(* Properties of the provider, checked under ProviderSpec *)

C10_IdempotentDrop ==
    /\ []((cur.kind = "api" /\ ~cur.fetchOk /\ ppc = "select") =>
            /\ cur.appId \notin DOMAIN apps
            /\ Len(sent) <= 1)
    /\ [][\A e \in Events :
            (/\ OnAPIRequest(e)
             /\ ~e.fetchOk
             /\ cur = e
             /\ sent # <<>>) => pending' = NoCommand]_vars

\* C11: an API request whose fetch succeeds sends AppUpdated and records the
\* application in the known-apps map, so that a TASK_RUNNING update of that
\* application handled next sends AddBackend.
C11_ApiUpdateRecordsApp ==
    /\ []((cur.kind = "api" /\ cur.fetchOk /\ ppc = "select") =>
            /\ sent = <<AppUpdatedCmd(cur.appId, cur.labels)>>
            /\ cur.appId \in DOMAIN apps
            /\ apps[cur.appId] = cur.labels)
    /\ [][\A e \in Events :
            (/\ OnStatusUpdate(e)
             /\ e.status = "TASK_RUNNING"
             /\ cur.kind = "api"
             /\ cur.fetchOk
             /\ cur.appId = e.appId)
            => (pending'.kind = "AddBackend" \/ ppc' = "crashed")]_vars

\* C14 (as claimed): once a value is offered on the stop channel, the
\* provider begins no further send.
C14_NoSendAfterStopFired ==
    [][stopFired => ~(pending = NoCommand /\ pending' # NoCommand)]_vars

\* C14 (amended): once the select has taken the stop case, the provider
\* begins no send, no command is received, and it stays stopped.
C14_NoSendAfterStopTaken ==
    [][(ppc = "stopped") =>
          (pending' = pending /\ sent' = sent /\ ppc' = "stopped")]_vars

\* The provider has stopped right after an event whose command was received.
C14_Witness ==
    /\ ppc = "stopped"
    /\ stopFired
    /\ cur.kind = "status"
    /\ sent # <<>>

C17_OnlyEnabledAnnounced ==
    /\ \A i \in 1..Len(sent) :
          sent[i].kind = "AppUpdated" => sent[i].labels.enabled = "true"
    /\ pending.kind = "AppUpdated" => pending.labels.enabled = "true"
    /\ \A a \in DOMAIN apps : apps[a].enabled = "true"

\* C18: a status update of a known application that reports the task as no
\* longer running (failed or killed) sends exactly one RemoveBackend.
C18_EndedTaskRemoved ==
    (/\ cur.kind = "status"
     /\ cur.status \in {"TASK_FAILED", "TASK_KILLED"}
     /\ cur.appId \in DOMAIN apps
     /\ ppc = "select")
    => (Len(sent) = 1 /\ sent[1].kind = "RemoveBackend")

\* C20: after AppDropped was sent for an application, a status update of that
\* application sends no command.
C20_NoBackendAfterDrop ==
    [][\A e \in Events :
          (/\ OnStatusUpdate(e)
           /\ cur.kind = "api"
           /\ ~cur.fetchOk
           /\ cur.appId = e.appId
           /\ sent = <<AppDroppedCmd(cur.appId, cur.labels)>>)
          => pending' = NoCommand]_vars

\* C19: AddBackend of a node that is already in the backend list leaves the
\* list, and so LenOfBackends, as they were.
C19_DuplicateAddIsNoOp ==
    [][\A t \in Tasks :
          (AddList(t) /\ arg[t] \in Range(backends))
          => backends' = backends]_vars

\* C16: after the stop signal has fired the provider eventually terminates,
\* from every state it can be in, a send no consumer receives included.
C16_StopTerminates ==
    stopFired ~> (ppc \in {"stopped", "fatal", "crashed"})

----------------------------------------------------------------------------
(* Properties of Start and Stop, checked under ListenerSpec *)

\* C12: a Stop that closes the listener of a running accept loop ends no
\* Relay: once the listener is closed, a Relay ends only because its own
\* sockets closed.
C12_StopSparesRelays ==
    [][(lsock = "closed" /\ relays' < relays) => RelayEnds]_vars

\* C13: once Stop has returned the Frontend has no open listener and accepts
\* no connection, however Stop interleaves with Start.
C13_StoppedMeansClosed ==
    /\ [](stopDone => lsock # "open")
    /\ [][stopDone => ~AcceptConn]_vars

====
